---------------------------- MODULE Spec2Model ----------------------------
(***************************************************************************)
(* A model of package rsa (src/ReverseRsaEnc.go, lines 1-219): the         *)
(* arithmetic helpers, Pollard's Rho factorization, the modular inverse,   *)
(* modular exponentiation and DecryptCipher, together with the round trip  *)
(* of src/rsa_test.go.                                                     *)
(*                                                                         *)
(* The functions are pure.  Specification Spec draws one call (a function  *)
(* name and its arguments) in Init and one action per function applies it. *)
(* Specification SpecRho runs the loop of GetPrimeFactors one program      *)
(* step at a time, for the termination argument.                           *)
(*                                                                         *)
(* Outcomes are records [kind, val]: kind "value" (a normal return, val    *)
(* the tuple of returned integers), "error" (a non-nil error next to the   *)
(* returned integers) and "panic" (a Go run-time panic: integer or         *)
(* big.Int division by zero).                                              *)
(*                                                                         *)
(* int64 and big.Int values are modelled by TLA+ integers; the bounds      *)
(* below keep every intermediate value far from the int64 range, so no     *)
(* wrap-around is reachable in the model.                                  *)
(***************************************************************************)
EXTENDS Integers, Sequences, FiniteSets, TLC

VARIABLES fn, args, ret, pf

vars == <<fn, args, ret, pf>>

(***************************************************************************)
(* Bounds of the model.                                                    *)
(***************************************************************************)
\* Arguments of EuclideanMod, GetGcd, GetExtEuclideanAlgorithm and
\* GetMultInverse range over -MaxArg..MaxArg.
MaxArg == 20
\* Numbers n handed to GetPrimeFactors range over 2..MaxN.
MaxN == 220
\* Moduli n handed to DecryptCipher and to the round trip range over
\* 2..MaxKey; ciphers and messages over 0..(n - 1).
MaxKey == 35
\* Public exponents e range over 1..MaxE.
MaxE == 7
\* Bases, exponents and moduli of GetEncOrDecMsg.
MaxBase == 6
MaxExp == 6
MaxMod == 6

(***************************************************************************)
(* Outcomes.                                                               *)
(***************************************************************************)
NoRet == [kind |-> "none", val |-> <<>>]
Value(v) == [kind |-> "value", val |-> v]
Error(v) == [kind |-> "error", val |-> v]
Panic == [kind |-> "panic", val |-> <<>>]

Abs(a) == IF a < 0 THEN -a ELSE a

(***************************************************************************)
(* Go's integer operators on int64.                                        *)
(***************************************************************************)
\* a / b for b # 0: the quotient truncated toward zero.
GoQuo(a, b) ==
    IF (a >= 0) = (b > 0) THEN Abs(a) \div Abs(b) ELSE -(Abs(a) \div Abs(b))

\* a % b for b # 0: the remainder of the truncated division (the sign of a).
GoRem(a, b) == a - b * GoQuo(a, b)

\* a & b on two's complement integers: bit by bit, an arithmetic shift
\* ending at 0 (all bits clear) or -1 (all bits set).
RECURSIVE GoAnd(_, _)
GoAnd(a, b) ==
    IF a = 0 \/ b = 0 THEN 0
    ELSE IF a = -1 THEN b
    ELSE IF b = -1 THEN a
    ELSE (a % 2) * (b % 2) + 2 * GoAnd(a \div 2, b \div 2)

(***************************************************************************)
(* EuclideanMod, lines 37-47.                                              *)
(***************************************************************************)
EuclideanMod(d, m) ==
    LET res == GoAnd(d, m)
    IN  IF res < -1 /\ m > 0 THEN res + m ELSE res

(***************************************************************************)
(* GetMod, lines 51-57: big.Int.Mod, the Euclidean modulus, for n2 # 0     *)
(* (big.Int.Mod panics on n2 = 0; GetGcd below decides that case).         *)
(***************************************************************************)
GetMod(n1, n2) == n1 % Abs(n2)

(***************************************************************************)
(* GetGcd, lines 62-80.                                                    *)
(***************************************************************************)
\* The loop of lines 71-78 from the state (n1Copy, n2Copy, n1n2Mod).
RECURSIVE GcdLoop(_, _, _)
GcdLoop(n1Copy, n2Copy, n1n2Mod) ==
    IF n1n2Mod = 0 THEN n2Copy
    ELSE GcdLoop(n2Copy, n1n2Mod, GetMod(n2Copy, n1n2Mod))

GetGcd(n1, n2) ==
    IF n2 = 0 THEN Panic
    ELSE Value(<<GcdLoop(n1, n2, GetMod(n1, n2))>>)

(***************************************************************************)
(* GetPrimeFactors, lines 89-118: Pollard's Rho.  The activation record is *)
(* st: the locals of the function, the program position pc ("outer": the   *)
(* test of line 99, "inner": the test of line 100, "return": line 114,     *)
(* "done": returned) and the returned pair (p, q).                         *)
(***************************************************************************)
\* Lines 91-97.
PFStart(n) ==
    [pc |-> "outer", n |-> n, x |-> 2, xFixed |-> 2, tempX |-> 2,
     cycleSize |-> 2, count |-> 0, factor |-> 1, p |-> 0, q |-> 0]

\* Line 99: for factor.Cmp(one) == 0; entering the inner loop sets count to 1.
PFOuterTest(st) ==
    IF st.factor = 1
    THEN [st EXCEPT !.pc = "inner", !.count = 1]
    ELSE [st EXCEPT !.pc = "return"]

\* Line 100: count <= cycleSize && factor.Cmp(one) <= 0.
PFInnerCond(st) == st.count <= st.cycleSize /\ st.factor <= 1

\* Lines 101-106 and the count++ of line 100.  nBig >= 2 here, so neither
\* x.Mod nor GetGcd divides by zero.
PFBody(st) ==
    LET x1 == (st.x * st.x + 1) % st.n
        t1 == x1 - st.xFixed
    IN  [st EXCEPT !.x = x1, !.tempX = t1,
                   !.factor = GetGcd(t1, st.n).val[1],
                   !.count = st.count + 1]

\* PFInnerExit without the doubling of line 109.
PFInnerExitNoDoubling(st) ==
    [st EXCEPT !.xFixed = st.x, !.pc = "outer"]

\* Lines 109-111, after the inner loop.
PFInnerExit(st) ==
    [st EXCEPT !.cycleSize = 2 * st.cycleSize, !.xFixed = st.x, !.pc = "outer"]

\* Lines 114-117: p := factor; q := nBig.Div(nBig, p).
PFReturn(st) ==
    [st EXCEPT !.p = st.factor, !.q = st.n \div st.factor, !.pc = "done"]

\* One program step of GetPrimeFactors.
PFStep(st) ==
    CASE st.pc = "outer" -> PFOuterTest(st)
      [] st.pc = "inner" -> IF PFInnerCond(st) THEN PFBody(st) ELSE PFInnerExit(st)
      [] st.pc = "return" -> PFReturn(st)
      [] OTHER -> st

RECURSIVE PFRun(_)
PFRun(st) == IF st.pc = "done" THEN st ELSE PFRun(PFStep(st))

GetPrimeFactors(n) ==
    LET st == PFRun(PFStart(n)) IN Value(<<st.p, st.q>>)

(***************************************************************************)
(* GetPhi, lines 122-135.                                                  *)
(***************************************************************************)
GetPhi(p, q) == (p - 1) * (q - 1)

(***************************************************************************)
(* GetExtEuclideanAlgorithm, lines 153-170.                                *)
(***************************************************************************)
\* ExtLoop with line 164 updating t from s: prvT, t = t, prvT-quotient*s.
RECURSIVE ExtLoopMixed(_, _, _, _, _, _)
ExtLoopMixed(s, prvS, t, prvT, r, oldR) ==
    IF r = 0 THEN <<oldR, prvS, prvT>>
    ELSE LET quotient == GoQuo(oldR, r)
         IN  ExtLoopMixed(prvS - quotient * s, s,
                          prvT - quotient * s, t,
                          oldR - quotient * r, r)

\* The loop of lines 160-165 from the state (s, prvS, t, prvT, r, oldR);
\* lines 167-169 return (oldR, prvS, prvT).
RECURSIVE ExtLoop(_, _, _, _, _, _)
ExtLoop(s, prvS, t, prvT, r, oldR) ==
    IF r = 0 THEN <<oldR, prvS, prvT>>
    ELSE LET quotient == GoQuo(oldR, r)
         IN  ExtLoop(prvS - quotient * s, s,
                     prvT - quotient * t, t,
                     oldR - quotient * r, r)

GetExtEuclideanAlgorithm(a, b) == ExtLoop(0, 1, 1, 0, b, a)

(***************************************************************************)
(* GetMultInverse, lines 176-184.  x % modulusBase is Go's remainder; it   *)
(* panics when modulusBase is 0.                                           *)
(***************************************************************************)
GetMultInverse(n, modulusBase) ==
    LET g == GetExtEuclideanAlgorithm(n, modulusBase)
    IN  IF g[1] # 1 THEN Error(<<0>>)
        ELSE IF modulusBase = 0 THEN Panic
        ELSE Value(<<GoRem(g[2], modulusBase)>>)

(***************************************************************************)
(* GetEncOrDecMsg, lines 188-200.  For exp > 0, exp & 1 is exp % 2 and     *)
(* exp >>= 1 is exp \div 2.                                                *)
(***************************************************************************)
\* The loop of lines 192-198 from the state (base, exp, result).
RECURSIVE PowLoop(_, _, _, _)
PowLoop(base, exp, modulus, result) ==
    IF exp > 0
    THEN PowLoop(GoRem(base * base, modulus), exp \div 2, modulus,
                 IF exp % 2 > 0 THEN GoRem(result * base, modulus) ELSE result)
    ELSE result

GetEncOrDecMsg(base, exp, modulus) ==
    IF modulus = 0 THEN Panic
    ELSE Value(<<PowLoop(GoRem(base, modulus), exp, modulus, 1)>>)

(***************************************************************************)
(* DecryptCipher, lines 205-219.  The error of GetMultInverse is printed   *)
(* (lines 210-212) and execution goes on with the d returned beside it.    *)
(***************************************************************************)
DecryptCipher(cipher, n, e) ==
    LET pq == GetPrimeFactors(n).val
        phi == GetPhi(pq[1], pq[2])
        inv == GetMultInverse(e, phi)
    IN  IF inv.kind = "panic" THEN Panic
        ELSE GetEncOrDecMsg(cipher, inv.val[1], n)

(***************************************************************************)
(* TestReverseRsaEnc, src/rsa_test.go lines 11-29, for a key (n, e) and a  *)
(* message: returns the cipher and the decrypted message mPrime.           *)
(***************************************************************************)
TestReverseRsaEnc(n, e, messageToEnc) ==
    LET cipher == GetEncOrDecMsg(messageToEnc, e, n).val[1]
        mPrime == DecryptCipher(cipher, n, e)
    IN  IF mPrime.kind = "panic" THEN Panic
        ELSE Value(<<cipher, mPrime.val[1]>>)

(***************************************************************************)
(* Specification Spec: one call of one exported function.  Init draws the  *)
(* function and its arguments; the function's action applies it.           *)
(***************************************************************************)
ArgRange == (-MaxArg)..MaxArg

Calls ==
    {[fn |-> "EuclideanMod", args |-> <<d, m>>] : d \in ArgRange, m \in ArgRange}
    \cup {[fn |-> "GetGcd", args |-> <<a, b>>] : a \in ArgRange, b \in ArgRange}
    \cup {[fn |-> "GetPrimeFactors", args |-> <<n>>] : n \in 2..MaxN}
    \cup {[fn |-> "GetExtEuclideanAlgorithm", args |-> <<a, b>>] :
             a \in ArgRange, b \in ArgRange}
    \cup {[fn |-> "GetMultInverse", args |-> <<n, m>>] : n \in ArgRange, m \in 0..MaxArg}
    \cup {[fn |-> "GetEncOrDecMsg", args |-> <<b, x, m>>] :
             b \in (-MaxBase)..MaxBase, x \in (-1)..MaxExp, m \in 0..MaxMod}
    \cup UNION {{[fn |-> "DecryptCipher", args |-> <<c, n, e>>] :
                    c \in 0..(n - 1), e \in 1..MaxE} : n \in 2..MaxKey}
    \cup UNION {{[fn |-> "TestReverseRsaEnc", args |-> <<n, e, m>>] :
                    m \in 0..(n - 1), e \in 1..MaxE} : n \in 2..MaxKey}

PFIdle == [PFStart(2) EXCEPT !.pc = "idle"]

Init ==
    /\ \E c \in Calls : fn = c.fn /\ args = c.args
    /\ ret = NoRet
    /\ pf = PFIdle

Pending(f) == fn = f /\ ret.kind = "none"

CallEuclideanMod ==
    /\ Pending("EuclideanMod")
    /\ ret' = Value(<<EuclideanMod(args[1], args[2])>>)
    /\ UNCHANGED <<fn, args, pf>>

CallGetGcd ==
    /\ Pending("GetGcd")
    /\ ret' = GetGcd(args[1], args[2])
    /\ UNCHANGED <<fn, args, pf>>

CallGetPrimeFactors ==
    /\ Pending("GetPrimeFactors")
    /\ ret' = GetPrimeFactors(args[1])
    /\ UNCHANGED <<fn, args, pf>>

CallGetExtEuclideanAlgorithm ==
    /\ Pending("GetExtEuclideanAlgorithm")
    /\ ret' = Value(GetExtEuclideanAlgorithm(args[1], args[2]))
    /\ UNCHANGED <<fn, args, pf>>

CallGetMultInverse ==
    /\ Pending("GetMultInverse")
    /\ ret' = GetMultInverse(args[1], args[2])
    /\ UNCHANGED <<fn, args, pf>>

CallGetEncOrDecMsg ==
    /\ Pending("GetEncOrDecMsg")
    /\ ret' = GetEncOrDecMsg(args[1], args[2], args[3])
    /\ UNCHANGED <<fn, args, pf>>

CallDecryptCipher ==
    /\ Pending("DecryptCipher")
    /\ ret' = DecryptCipher(args[1], args[2], args[3])
    /\ UNCHANGED <<fn, args, pf>>

CallTestReverseRsaEnc ==
    /\ Pending("TestReverseRsaEnc")
    /\ ret' = TestReverseRsaEnc(args[1], args[2], args[3])
    /\ UNCHANGED <<fn, args, pf>>

Next ==
    \/ CallEuclideanMod
    \/ CallGetGcd
    \/ CallGetPrimeFactors
    \/ CallGetExtEuclideanAlgorithm
    \/ CallGetMultInverse
    \/ CallGetEncOrDecMsg
    \/ CallDecryptCipher
    \/ CallTestReverseRsaEnc

Spec == Init /\ [][Next]_vars

(***************************************************************************)
(* Specification SpecRho: one call of GetPrimeFactors(n), 2 <= n <= MaxN,  *)
(* executed one program step at a time in pf.  The function runs           *)
(* sequentially, so a step that can be taken is taken: weak fairness.      *)
(***************************************************************************)
InitRho ==
    /\ fn = "GetPrimeFactors"
    /\ \E n \in 2..MaxN : args = <<n>> /\ pf = PFStart(n)
    /\ ret = NoRet

RhoOuterTest ==
    /\ pf.pc = "outer"
    /\ pf' = PFOuterTest(pf)
    /\ UNCHANGED <<fn, args, ret>>

RhoInnerBody ==
    /\ pf.pc = "inner"
    /\ PFInnerCond(pf)
    /\ pf' = PFBody(pf)
    /\ UNCHANGED <<fn, args, ret>>

RhoInnerExit ==
    /\ pf.pc = "inner"
    /\ ~PFInnerCond(pf)
    /\ pf' = PFInnerExit(pf)
    /\ UNCHANGED <<fn, args, ret>>

RhoReturn ==
    /\ pf.pc = "return"
    /\ pf' = PFReturn(pf)
    /\ ret' = Value(<<pf'.p, pf'.q>>)
    /\ UNCHANGED <<fn, args>>

NextRho == RhoOuterTest \/ RhoInnerBody \/ RhoInnerExit \/ RhoReturn

SpecRho == InitRho /\ [][NextRho]_vars /\ WF_vars(NextRho)

(***************************************************************************)
(* Mathematical notions the properties are stated with.                    *)
(***************************************************************************)
Divides(d, a) == d # 0 /\ a % Abs(d) = 0

IsPrime(n) == n > 1 /\ \A d \in 2..(n - 1) : n % d # 0

IsComposite(n) == n > 1 /\ ~IsPrime(n)

Max(a, b) == IF a >= b THEN a ELSE b

\* g is the greatest common divisor of a and b, not both zero.
IsGreatestCommonDivisor(g, a, b) ==
    /\ g > 0 /\ Divides(g, a) /\ Divides(g, b)
    /\ \A d \in 1..Max(Abs(a), Abs(b)) : Divides(d, a) /\ Divides(d, b) => d <= g

Coprime(a, b) == IsGreatestCommonDivisor(1, a, b)

Returned(f) == fn = f /\ ret.kind # "none"

\* n = p*q for two distinct primes p, q.
SemiPrime(n) ==
    \E p \in 2..n, q \in 2..n : IsPrime(p) /\ IsPrime(q) /\ p # q /\ p * q = n

\* n = p*q for two distinct primes p, q, and e is coprime to (p-1)(q-1).
ValidKey(n, e) ==
    \E p \in 2..n, q \in 2..n :
        /\ IsPrime(p) /\ IsPrime(q) /\ p # q /\ p * q = n
        /\ Coprime(e, (p - 1) * (q - 1))

\* The outcome of GetMultInverse inside DecryptCipher(cipher, n, e), lines 207-209.
InverseInDecrypt(n, e) ==
    LET pq == GetPrimeFactors(n).val
    IN  GetMultInverse(e, GetPhi(pq[1], pq[2]))

(***************************************************************************)
(* C1.  Round trip: for every n = p*q with known (distinct prime) factors, *)
(* every e coprime to (p-1)(q-1) and every m in [0, n), the cipher of m    *)
(* under (e, n) is decrypted by DecryptCipher back to m.                   *)
(***************************************************************************)
C1_RoundTrip ==
    Returned("TestReverseRsaEnc") /\ ValidKey(args[1], args[2])
        => ret.kind = "value" /\ ret.val[2] = args[3]

(***************************************************************************)
(* C2.  For every composite n > 1, GetPrimeFactors(n) returns (p, q) with  *)
(* p*q = n, 1 < p < n and 1 < q < n: never the trivial pair (n, 1).        *)
(***************************************************************************)
C2_NontrivialFactors ==
    Returned("GetPrimeFactors") /\ IsComposite(args[1])
        => /\ ret.kind = "value"
           /\ ret.val[1] * ret.val[2] = args[1]
           /\ 1 < ret.val[1] /\ ret.val[1] < args[1]
           /\ 1 < ret.val[2] /\ ret.val[2] < args[1]

(***************************************************************************)
(* C3.  For a prime n, GetPrimeFactors(n) ends with a factorization        *)
(* failure reported to the caller, not with a factor pair.                 *)
(***************************************************************************)
C3_PrimeIsReportedAsFailure ==
    Returned("GetPrimeFactors") /\ IsPrime(args[1]) => ret.kind = "error"

(***************************************************************************)
(* C4.  When GetMultInverse fails inside DecryptCipher, DecryptCipher      *)
(* returns that error to its caller and no message value.  Stated for the  *)
(* moduli n that are a product of two distinct primes.                     *)
(***************************************************************************)
C4_InverseErrorSurfaces ==
    (/\ Returned("DecryptCipher") /\ SemiPrime(args[2])
     /\ InverseInDecrypt(args[2], args[3]).kind = "error")
        => ret.kind = "error"

(***************************************************************************)
(* C5.  For modulusBase > 1: if gcd(n, modulusBase) = 1, GetMultInverse    *)
(* succeeds with d, 0 <= d < modulusBase and n*d = 1 modulo modulusBase;   *)
(* otherwise it returns an error.  Stated for n >= 0.                      *)
(***************************************************************************)
C5_MultInverse ==
    Returned("GetMultInverse") /\ args[1] >= 0 /\ args[2] > 1
        => IF Coprime(args[1], args[2])
           THEN /\ ret.kind = "value"
                /\ 0 <= ret.val[1] /\ ret.val[1] < args[2]
                /\ (args[1] * ret.val[1]) % args[2] = 1
           ELSE ret.kind = "error"

(***************************************************************************)
(* C6.  For nonnegative a, b not both zero, GetExtEuclideanAlgorithm(a, b) *)
(* returns (gcd, x, y) with a*x + b*y = gcd and gcd the greatest common    *)
(* divisor of a and b.                                                     *)
(***************************************************************************)
C6_ExtEuclid ==
    (/\ Returned("GetExtEuclideanAlgorithm")
     /\ args[1] >= 0 /\ args[2] >= 0 /\ args[1] + args[2] > 0)
        => /\ ret.kind = "value"
           /\ args[1] * ret.val[2] + args[2] * ret.val[3] = ret.val[1]
           /\ IsGreatestCommonDivisor(ret.val[1], args[1], args[2])

\* A call on coprime a, b > 1 whose loop ran several rounds and returned a
\* negative Bezout coefficient.
C6_Witness ==
    /\ Returned("GetExtEuclideanAlgorithm")
    /\ args[1] > 1 /\ args[2] > args[1]
    /\ ret.val[1] = 1 /\ ret.val[2] < -1

(***************************************************************************)
(* C7.  GetGcd(a, b) = GetGcd(b, a) for all a, b, and GetGcd(a, 0) returns *)
(* a for every a > 0.  Stated for a, b >= 0.                               *)
(***************************************************************************)
C7_GcdSymmetricAndZero ==
    Returned("GetGcd") /\ args[1] >= 0 /\ args[2] >= 0
        => /\ ret = GetGcd(args[2], args[1])
           /\ (args[1] > 0 /\ args[2] = 0 => ret = Value(<<args[1]>>))

(***************************************************************************)
(* C8.  GetEncOrDecMsg(base, 0, modulus) = 1 for modulus > 1, and          *)
(* GetEncOrDecMsg(base, exp, 1) = 0 for every exp >= 0.                    *)
(***************************************************************************)
C8_PowBoundary ==
    Returned("GetEncOrDecMsg")
        => /\ (args[2] = 0 /\ args[3] > 1 => ret = Value(<<1>>))
           /\ (args[2] >= 0 /\ args[3] = 1 => ret = Value(<<0>>))

(***************************************************************************)
(* C9.  For every integer d and every m > 0, EuclideanMod(d, m) is the r   *)
(* with 0 <= r < m and d - r divisible by m.                               *)
(***************************************************************************)
C9_EuclideanRemainder ==
    Returned("EuclideanMod") /\ args[2] > 0
        => /\ ret.kind = "value"
           /\ 0 <= ret.val[1] /\ ret.val[1] < args[2]
           /\ (args[1] - ret.val[1]) % args[2] = 0

(***************************************************************************)
(* C10.  For every n >= 2 the loop of GetPrimeFactors terminates: the      *)
(* function returns.  When the iterate x meets the anchor xFixed the       *)
(* difference is 0 and GetGcd(0, n) makes factor = n; the function ends    *)
(* either with a divisor 1 < factor < n or with x = xFixed, factor = n and *)
(* the trivial pair (n, 1).                                                *)
(***************************************************************************)
C10_RhoTerminates ==
    /\ <>(pf.pc = "done" /\ ret.kind = "value")
    /\ [](pf.tempX = 0 => pf.factor = pf.n)
    /\ [](pf.pc = "done" =>
            \/ 1 < pf.factor /\ pf.factor < pf.n /\ Divides(pf.factor, pf.n)
            \/ pf.x = pf.xFixed /\ pf.factor = pf.n /\ ret.val = <<pf.n, 1>>)

\* A run that closed the cycle after several doublings of cycleSize and
\* returned the trivial pair.
C10_Witness ==
    /\ pf.pc = "done" /\ pf.cycleSize >= 16
    /\ pf.x = pf.xFixed /\ pf.factor = pf.n
    /\ ret = Value(<<pf.n, 1>>)

=============================================================================
